---- MODULE Spec2Model ----
(***************************************************************************)
(* Model of nand_dumper.c: a two-core NAND flash dumper.  The control core *)
(* (main) boots the chip, decodes its geometry, launches the worker core   *)
(* (core1_main) and then turns host bytes into Commands; the worker owns   *)
(* the page counter and the bus, and answers every Command with a Result.  *)
(***************************************************************************)
EXTENDS Integers, Sequences, FiniteSets, TLC

VARIABLES
    c_pc,           \* main: position of the control core
    c,              \* main: char c (host byte of this polling iteration, -1 when none)
    c_cmd_arg,      \* main: cmd_t cmd_arg
    res,            \* main: result_t res
    p1, p2, p3,     \* main: the three argument bytes of '3'
    id_data,        \* main: id_data_t id_data
    curr_page,      \* main: uint32_t curr_page
    out,            \* the last line main printed to the host
    flash_info_glob,\* global flash_info_struct
    cmd_queue,      \* global queue_t cmd_queue
    results_queue,  \* global queue_t results_queue
    shared_buffer,  \* global uint8_t shared_buffer[16384], at the offsets of Probes
    w_pc,           \* core1_main: position of the worker core
    w_cmd_arg,      \* core1_main: cmd_t cmd_arg
    result,         \* core1_main: result_t result
    page_num,       \* core1_main: int page_num
    rb_i,           \* read_bytes: loop index i
    rb_n,           \* read_bytes: num_bytes
    nand,           \* the chip: command and row address it latched, ready/busy line
    chip_id,        \* the chip: the five ID bytes it answers command 0x90 with
    ry_stuck,       \* the chip: its ready/busy line has failed low for good
    chip_col,       \* the chip: read-enable pulses since the last latch
    pins,           \* the levels the program drives: IO direction and value, CLE, ALE,
                    \* CE, RE, WE, WP
    b_op,           \* bus level: the primitive being executed and its arguments
    b_todo,         \* bus level: the statements of that primitive still to execute
    b_dst,          \* bus level: the bytes read_bytes has stored through dst
    bus_log,        \* bus level: what happened on the bus since the primitive was called
    b_done,         \* bus level: primitives called so far
    issued,         \* history: number of Commands main has enqueued
    received,       \* history: number of Results main has dequeued
    h_page0,        \* history: page_num when the worker dequeued its current Command
    h_run           \* history: ReadPage dispatches completed since page_num was
                    \* last put to 0 with nothing but ReadPage after it (-1: none)

vars == << c_pc, c, c_cmd_arg, res, p1, p2, p3, id_data, curr_page, out,
           flash_info_glob, cmd_queue, results_queue, shared_buffer,
           w_pc, w_cmd_arg, result, page_num, rb_i, rb_n, nand, chip_id,
           ry_stuck, chip_col, pins, b_op, b_todo, b_dst, bus_log, b_done,
           issued, received, h_page0, h_run >>

ctl_vars == << c_pc, c, c_cmd_arg, res, p1, p2, p3, id_data, curr_page, out >>
wrk_vars == << w_pc, w_cmd_arg, result, page_num, rb_i, rb_n >>
hist_vars == << issued, received, h_page0, h_run >>
bus_vars == << chip_col, pins, b_op, b_todo, b_dst, bus_log, b_done >>

-----------------------------------------------------------------------------
(* Bounds of the model *)

\* Commands main may enqueue in one run
MaxCmds == 3

-----------------------------------------------------------------------------
(* Program constants *)

CMD_READ_ID == 0
CMD_READ_PAGE == 1
CMD_RESET_PAGE_NO == 2
CMD_SET_PAGE_NO == 3
CMD_GET_DRIVE_STRENGTH == 4
CMD_GET_FLASH_INFO == 5
CMD_NONE == 6

TOSHIBA_KIOXIA == 152

\* queue_init(.., .., 20)
QueueCap == 20

\* sizeof(shared_buffer)
BufSize == 16384

\* sizeof(id_data_t)
IdSize == 5

\* getchar_timeout_us: no byte within the wait
PICO_ERROR_TIMEOUT == 0 - 1

\* GPIO_DRIVE_STRENGTH_2MA, what init_gpios sets and '4' reads back
DriveStrength2MA == 0

-----------------------------------------------------------------------------
(* C integer arithmetic *)

Pow2(n) == 2 ^ n

U8(x) == x % 256
U16(x) == x % 65536
\* x mod 2^32, taken by 16-bit halves so that 2^32 itself is never written
U32(x) == ((x \div 65536) % 65536) * 65536 + (x % 65536)

RECURSIVE BitAnd(_, _)
BitAnd(a, b) ==
    IF a = 0 \/ b = 0 THEN 0
    ELSE (IF a % 2 = 1 /\ b % 2 = 1 THEN 1 ELSE 0) + 2 * BitAnd(a \div 2, b \div 2)

RECURSIVE BitOr(_, _)
BitOr(a, b) ==
    IF a = 0 THEN b
    ELSE IF b = 0 THEN a
    ELSE (IF a % 2 = 1 \/ b % 2 = 1 THEN 1 ELSE 0) + 2 * BitOr(a \div 2, b \div 2)

Shl(a, n) == a * Pow2(n)
Shr(a, n) == a \div Pow2(n)

-----------------------------------------------------------------------------
(* The chip, as far as the program can observe it *)

\* ID bytes a chip may answer with: two makers, every page-size field, both IO widths
ChipIds ==
    { << mk, 220, 144, b3, 118 >> : mk \in {TOSHIBA_KIOXIA, 44},
                                    b3 \in {36, 37, 38, 39, 101, 102} }

\* Before the first command: nothing latched
NoChipCmd == 0 - 1

\* Content of the flash array: the byte at column col of the page the latched
\* address selects (never 0, so that it differs from a cleared buffer)
PageData(addr, col) == ((addr[3] + 2 * addr[4] + 3 * addr[5] + col) % 7) + 1

\* The byte the chip drives on the I/O lines at the i-th read-enable pulse
ChipOut(n, id, i) ==
    IF n.cmd = 144 THEN (IF i < 5 THEN id[i + 1] ELSE 0)
    ELSE IF n.cmd = 48 THEN PageData(n.addr, i)
    ELSE 255

\* The ready/busy line goes high again some time after the chip went busy
ChipReady ==
    /\ nand.ry = FALSE
    /\ ~ry_stuck
    /\ nand' = [nand EXCEPT !.ry = TRUE]
    /\ UNCHANGED << ctl_vars, wrk_vars, hist_vars, flash_info_glob, cmd_queue,
                    results_queue, shared_buffer, chip_id, ry_stuck, bus_vars >>

-----------------------------------------------------------------------------
(* Bus primitives and protocol engine, by their effect on the chip *)

\* write_cmd: the chip latches the command; reset and read-confirm make it busy
write_cmd(n, cmd) ==
    [n EXCEPT !.cmd = cmd, !.ry = IF cmd \in {255, 48} THEN FALSE ELSE n.ry]

reset_nand(n) == write_cmd(n, 255)

write_addr_1(n, addr) == [n EXCEPT !.addr = << addr >>]

\* The third row byte left unmasked
addr_bytes_Wide(page_addr, col_addr) ==
    LET col_addr_0 == BitAnd(col_addr, 255)
        col_addr_1 == BitAnd(Shr(col_addr, 8), 31)
        page_addr_0 == BitAnd(page_addr, 255)
        page_addr_1 == BitAnd(Shr(page_addr, 8), 255)
        page_addr_2 == BitAnd(Shr(page_addr, 16), 255)
    IN  << col_addr_0, col_addr_1, page_addr_0, page_addr_1, page_addr_2 >>

\* uint8_t addr_bytes[5] of write_addr_5
addr_bytes(page_addr, col_addr) ==
    LET col_addr_0 == BitAnd(col_addr, 255)
        col_addr_1 == BitAnd(Shr(col_addr, 8), 31)
        page_addr_0 == BitAnd(page_addr, 255)
        page_addr_1 == BitAnd(Shr(page_addr, 8), 255)
        page_addr_2 == BitAnd(Shr(page_addr, 16), 1)
    IN  << col_addr_0, col_addr_1, page_addr_0, page_addr_1, page_addr_2 >>

write_addr_5(n, page_addr, col_addr) ==
    [n EXCEPT !.addr = addr_bytes(page_addr, col_addr)]

\* read_id up to the point where read_bytes starts polling
read_id_setup(n) == write_addr_1(write_cmd(n, 144), 0)

\* The address cycles left out when the chip already holds a five-byte address
read_page_setup_Stale(n, page) ==
    IF Len(n.addr) = 5
    THEN write_cmd(write_cmd(reset_nand(n), 0), 48)
    ELSE write_cmd(write_addr_5(write_cmd(reset_nand(n), 0), page, 0), 48)

\* read_page up to the point where read_bytes starts polling
read_page_setup(n, page) ==
    write_cmd(write_addr_5(write_cmd(reset_nand(n), 0), page, 0), 48)

\* Offsets of shared_buffer the model keeps
Probes == {0, 4, 2175, 4351, BufSize - 1}

\* read_bytes: the next loop index the model looks at
NextIndex(i, n) ==
    LET later == { q \in Probes : q > i /\ q < n }
    IN  IF later = {} THEN n ELSE CHOOSE q \in later : \A r \in later : q <= r

-----------------------------------------------------------------------------
(* ID decoding *)

\* The IO-width test on the wrong bit
check_supported_io_width_Bit7(id_bytes) ==
    LET io_width == Shl(1, Shr(BitAnd(id_bytes.pgsz_bksz_iow, 128), 7)) * 8
    IN  io_width = 8

check_supported_io_width(id_bytes) ==
    LET io_width == Shl(1, Shr(BitAnd(id_bytes.pgsz_bksz_iow, 64), 6)) * 8
    IN  io_width = 8

\* A decode that falls back to the small page instead of failing
get_flash_info_Default(id_bytes, flash_info) ==
    LET pg_size_kb == Shl(1, BitAnd(id_bytes.pgsz_bksz_iow, 3))
        sized(pg, oob) ==
            [ret |-> TRUE,
             flash_info |-> [page_size_bytes |-> U16(pg),
                             oob_size_bytes |-> U16(oob),
                             flash_size_bytes |-> U32(64 * 2048 * U32(pg + oob))]]
    IN  IF id_bytes.maker = TOSHIBA_KIOXIA
        THEN CASE pg_size_kb = 4 -> sized(4096, 256)
               [] OTHER -> sized(2048, 128)
        ELSE [ret |-> FALSE, flash_info |-> flash_info]

\* A decode that computes the total in 16 bits
get_flash_info_Narrow(id_bytes, flash_info) ==
    LET pg_size_kb == Shl(1, BitAnd(id_bytes.pgsz_bksz_iow, 3))
        sized(pg, oob) ==
            [ret |-> TRUE,
             flash_info |-> [page_size_bytes |-> U16(pg),
                             oob_size_bytes |-> U16(oob),
                             flash_size_bytes |-> U16(64 * 2048 * U32(pg + oob))]]
    IN  IF id_bytes.maker = TOSHIBA_KIOXIA
        THEN CASE pg_size_kb = 4 -> sized(4096, 256)
               [] pg_size_kb = 2 -> sized(2048, 128)
               [] OTHER -> [ret |-> FALSE, flash_info |-> flash_info]
        ELSE [ret |-> FALSE, flash_info |-> flash_info]

\* Returns the bool and the record the pointer argument then holds
get_flash_info(id_bytes, flash_info) ==
    LET pg_size_kb == Shl(1, BitAnd(id_bytes.pgsz_bksz_iow, 3))
        sized(pg, oob) ==
            LET total_pg_size == U32(pg + oob)
            IN  [ret |-> TRUE,
                 flash_info |-> [page_size_bytes |-> U16(pg),
                                 oob_size_bytes |-> U16(oob),
                                 flash_size_bytes |-> U32(64 * 2048 * total_pg_size)]]
    IN  IF id_bytes.maker = TOSHIBA_KIOXIA
        THEN CASE pg_size_kb = 4 -> sized(4096, 256)
               [] pg_size_kb = 2 -> sized(2048, 128)
               [] OTHER -> [ret |-> FALSE, flash_info |-> flash_info]
        ELSE [ret |-> FALSE, flash_info |-> flash_info]

IdRecord(b) ==
    [maker |-> b[1], device |-> b[2], chip_n_type |-> b[3],
     pgsz_bksz_iow |-> b[4], districts |-> b[5]]

-----------------------------------------------------------------------------
(* The pins as init_gpios leaves them, no primitive called yet *)

\* Levels are 0 and 1; io_dir 1 is output
InitPins ==
    [io_dir |-> 1, io_val |-> 0, cle |-> 0, ale |-> 0, ce |-> 1, re |-> 1,
     we |-> 1, wp |-> 1]

NoBusOp == [kind |-> "none", a |-> 0, b |-> 0]

BusAtRest ==
    /\ pins = InitPins
    /\ chip_col = 0
    /\ b_op = NoBusOp
    /\ b_todo = << >>
    /\ b_dst = << >>
    /\ bus_log = << >>
    /\ b_done = 0

-----------------------------------------------------------------------------
(* Initial state: the statics of the program, main not yet started *)

NoOut == [msg |-> "", args |-> << >>]

ZeroFlashInfo == [page_size_bytes |-> 0, oob_size_bytes |-> 0, flash_size_bytes |-> 0]

Init ==
    /\ c_pc = "reset_nand"
    /\ c = PICO_ERROR_TIMEOUT
    /\ c_cmd_arg = [cmd |-> CMD_NONE, arg |-> 0, seq |-> 0]
    /\ res = [sz |-> 0, alloc |-> 0, seq |-> 0]
    /\ p1 = 0 /\ p2 = 0 /\ p3 = 0
    /\ id_data = IdRecord(<< 0, 0, 0, 0, 0 >>)
    /\ curr_page = 0
    /\ out = NoOut
    /\ flash_info_glob = ZeroFlashInfo
    /\ cmd_queue = << >>
    /\ results_queue = << >>
    /\ shared_buffer = [o \in Probes |-> 0]
    /\ w_pc = "off"
    /\ w_cmd_arg = [cmd |-> 0, arg |-> 5, seq |-> 0]
    /\ result = [sz |-> 0, alloc |-> 0, seq |-> 0]
    /\ page_num = 0
    /\ rb_i = 0
    /\ rb_n = 0
    /\ nand = [cmd |-> NoChipCmd, addr |-> << >>, ry |-> TRUE]
    /\ chip_id \in ChipIds
    /\ ry_stuck = FALSE
    /\ BusAtRest
    /\ issued = 0
    /\ received = 0
    /\ h_page0 = 0
    /\ h_run = 0

-----------------------------------------------------------------------------
(* main: startup *)

BootUnchanged ==
    UNCHANGED << c, c_cmd_arg, res, p1, p2, p3, curr_page, cmd_queue,
                 results_queue, shared_buffer, wrk_vars, chip_id, ry_stuck, bus_vars, hist_vars >>

\* init_gpios; reset_nand
MainResetNand ==
    /\ c_pc = "reset_nand"
    /\ nand' = reset_nand(nand)
    /\ c_pc' = "read_id"
    /\ UNCHANGED << id_data, out, flash_info_glob >>
    /\ BootUnchanged

\* read_id: command 0x90, address 0x00, then read_bytes waits for ready
MainReadId ==
    /\ c_pc = "read_id"
    /\ nand' = read_id_setup(nand)
    /\ c_pc' = "read_id_bytes"
    /\ UNCHANGED << id_data, out, flash_info_glob >>
    /\ BootUnchanged

\* read_bytes(pins, &id_data, 5) once the ready/busy line reads high
MainReadIdBytes ==
    /\ c_pc = "read_id_bytes"
    /\ nand.ry = TRUE
    /\ id_data' = IdRecord([i \in 1..IdSize |-> ChipOut(nand, chip_id, i - 1)])
    /\ c_pc' = "check_io"
    /\ UNCHANGED << nand, out, flash_info_glob >>
    /\ BootUnchanged

MainCheckIoWidth ==
    /\ c_pc = "check_io"
    /\ IF check_supported_io_width(id_data)
       THEN c_pc' = "get_flash_info" /\ out' = out
       ELSE c_pc' = "halt_io" /\ out' = [msg |-> "Unsupported I/O width!", args |-> << >>]
    /\ UNCHANGED << id_data, nand, flash_info_glob >>
    /\ BootUnchanged

MainGetFlashInfo ==
    /\ c_pc = "get_flash_info"
    /\ LET r == get_flash_info(id_data, flash_info_glob)
       IN  /\ flash_info_glob' = r.flash_info
           /\ IF r.ret
              THEN c_pc' = "launch" /\ out' = out
              ELSE /\ c_pc' = "halt_id"
                   /\ out' = [msg |-> "Unrecognized NAND flash ID bytes!", args |-> << >>]
    /\ UNCHANGED << id_data, nand >>
    /\ BootUnchanged

\* while (true) tight_loop_contents();
MainHalt ==
    /\ c_pc \in {"halt_io", "halt_id"}
    /\ UNCHANGED vars

\* main reading the ID once more after the worker was launched
MainLaunch_Rereads ==
    /\ c_pc = "launch"
    /\ w_pc = "off"
    /\ w_pc' = "remove"
    /\ w_cmd_arg' = [cmd |-> 0, arg |-> 5, seq |-> 0]
    /\ result' = [sz |-> 0, alloc |-> 0, seq |-> 0]
    /\ page_num' = 0
    /\ curr_page' = 0
    /\ c_pc' = "read_id"
    /\ UNCHANGED << c, c_cmd_arg, res, p1, p2, p3, id_data, out, flash_info_glob,
                    cmd_queue, results_queue, shared_buffer, rb_i, rb_n, nand,
                    chip_id, ry_stuck, bus_vars, hist_vars >>

\* multicore_launch_core1(core1_main); uint32_t curr_page = 0;
MainLaunch ==
    /\ c_pc = "launch"
    /\ w_pc = "off"
    /\ w_pc' = "remove"
    /\ w_cmd_arg' = [cmd |-> 0, arg |-> 5, seq |-> 0]
    /\ result' = [sz |-> 0, alloc |-> 0, seq |-> 0]
    /\ page_num' = 0
    /\ curr_page' = 0
    /\ c_pc' = "poll"
    /\ UNCHANGED << c, c_cmd_arg, res, p1, p2, p3, id_data, out, flash_info_glob,
                    cmd_queue, results_queue, shared_buffer, rb_i, rb_n, nand,
                    chip_id, ry_stuck, bus_vars, hist_vars >>

-----------------------------------------------------------------------------
(* main: the polling loop *)

\* Host bytes tried: '0'..'6', '9', 'h'; PICO_ERROR_TIMEOUT stands for no byte
InChars == (48..54) \cup {57, 104, PICO_ERROR_TIMEOUT}

\* Argument bytes of '3' tried, per position, and a wait that times out
P1Inputs == {52, 255, PICO_ERROR_TIMEOUT}
P2Inputs == {18, 255, PICO_ERROR_TIMEOUT}
P3Inputs == {0, 1, 254, PICO_ERROR_TIMEOUT}

\* char c = getchar_timeout_us(0): char is unsigned on this target
ToChar(ch) == ch % 256

IsCmdChar(ch) == ch >= 48 /\ ch <= 57

NoCmd == [cmd |-> CMD_NONE, arg |-> 0, seq |-> 0]
NoRes == [sz |-> 0, alloc |-> 0, seq |-> 0]

Says(m, a) == [msg |-> m, args |-> a]

\* The locals of one iteration are dead once it ends
EndIteration ==
    /\ c_pc' = "poll"
    /\ c_cmd_arg' = NoCmd
    /\ res' = NoRes
    /\ p1' = 0 /\ p2' = 0 /\ p3' = 0

LoopUnchanged ==
    UNCHANGED << id_data, flash_info_glob, wrk_vars, nand, chip_id, ry_stuck, bus_vars, shared_buffer,
                 h_page0, h_run >>

\* No byte, or a byte that is no digit: the if is skipped
MainPollNoCmd(ch) ==
    /\ c_pc = "poll"
    /\ ~IsCmdChar(ToChar(ch))
    /\ c' = ToChar(ch)
    /\ EndIteration
    /\ UNCHANGED << curr_page, out, cmd_queue, results_queue, issued, received >>
    /\ LoopUnchanged

\* '0', '1', '2': the Command is built, queue_add_blocking comes next
MainPollCmd(ch) ==
    /\ c_pc = "poll"
    /\ IsCmdChar(ToChar(ch))
    /\ ToChar(ch) - 48 \in {CMD_READ_ID, CMD_READ_PAGE, CMD_RESET_PAGE_NO}
    /\ issued < MaxCmds
    /\ c' = ToChar(ch)
    /\ c_cmd_arg' = [cmd |-> ToChar(ch) - 48, arg |-> 0, seq |-> 0]
    /\ res' = NoRes
    /\ c_pc' = "add"
    /\ UNCHANGED << p1, p2, p3, curr_page, out, cmd_queue, results_queue, issued, received >>
    /\ LoopUnchanged

\* '3': the three argument bytes are read first
MainPollSetPageNo(ch) ==
    /\ c_pc = "poll"
    /\ IsCmdChar(ToChar(ch))
    /\ ToChar(ch) - 48 = CMD_SET_PAGE_NO
    /\ issued < MaxCmds
    /\ c' = ToChar(ch)
    /\ c_cmd_arg' = [cmd |-> CMD_SET_PAGE_NO, arg |-> 0, seq |-> 0]
    /\ res' = NoRes
    /\ c_pc' = "getchar_p1"
    /\ UNCHANGED << p1, p2, p3, curr_page, out, cmd_queue, results_queue, issued, received >>
    /\ LoopUnchanged

\* int p1 = getchar_timeout_us(2000000);
MainGetP1(b) ==
    /\ c_pc = "getchar_p1"
    /\ p1' = b
    /\ c_pc' = "getchar_p2"
    /\ UNCHANGED << c, c_cmd_arg, res, p2, p3, curr_page, out, cmd_queue,
                    results_queue, issued, received >>
    /\ LoopUnchanged

MainGetP2(b) ==
    /\ c_pc = "getchar_p2"
    /\ p2' = b
    /\ c_pc' = "getchar_p3"
    /\ UNCHANGED << c, c_cmd_arg, res, p1, p3, curr_page, out, cmd_queue,
                    results_queue, issued, received >>
    /\ LoopUnchanged

MainGetP3(b) ==
    /\ c_pc = "getchar_p3"
    /\ p3' = b
    /\ c_pc' = "page_no"
    /\ UNCHANGED << c, c_cmd_arg, res, p1, p2, curr_page, out, cmd_queue,
                    results_queue, issued, received >>
    /\ LoopUnchanged

\* The third byte taken whole
PageNo_WholeByte(b1, b2, b3) ==
    U32(BitOr(BitOr(BitAnd(b1, 255), Shl(BitAnd(b2, 255), 8)), Shl(BitAnd(b3, 255), 16)))

\* (p1 & 0xff) | ((p2 & 0xff) << 8) | ((p3 & 0x1) << 16)
PageNo(b1, b2, b3) ==
    U32(BitOr(BitOr(BitAnd(b1, 255), Shl(BitAnd(b2, 255), 8)), Shl(BitAnd(b3, 1), 16)))

\* Only the first wait tested
TimedOut_FirstOnly(b1, b2, b3) == PICO_ERROR_TIMEOUT = b1

TimedOut(b1, b2, b3) ==
    PICO_ERROR_TIMEOUT = b1 \/ PICO_ERROR_TIMEOUT = b2 \/ PICO_ERROR_TIMEOUT = b3

\* The timeout test, then the page number
MainPageNo ==
    /\ c_pc = "page_no"
    /\ IF TimedOut(p1, p2, p3)
       THEN /\ out' = Says("Timed out reading page number", << >>)
            /\ EndIteration
       ELSE /\ c_cmd_arg' = [c_cmd_arg EXCEPT !.arg = PageNo(p1, p2, p3)]
            /\ c_pc' = "add"
            /\ p1' = 0 /\ p2' = 0 /\ p3' = 0
            /\ UNCHANGED << res, out >>
    /\ UNCHANGED << c, curr_page, cmd_queue, results_queue, issued, received >>
    /\ LoopUnchanged

\* '4': gpio_get_drive_strength(1)
MainPollDriveStrength(ch) ==
    /\ c_pc = "poll"
    /\ IsCmdChar(ToChar(ch))
    /\ ToChar(ch) - 48 = CMD_GET_DRIVE_STRENGTH
    /\ c' = ToChar(ch)
    /\ out' = Says("Drive strength is", << DriveStrength2MA >>)
    /\ EndIteration
    /\ UNCHANGED << curr_page, cmd_queue, results_queue, issued, received >>
    /\ LoopUnchanged

\* '5': the geometry computed at startup
MainPollFlashInfo(ch) ==
    /\ c_pc = "poll"
    /\ IsCmdChar(ToChar(ch))
    /\ ToChar(ch) - 48 = CMD_GET_FLASH_INFO
    /\ c' = ToChar(ch)
    /\ out' = Says("flash info", << flash_info_glob.page_size_bytes,
                                    flash_info_glob.oob_size_bytes,
                                    flash_info_glob.flash_size_bytes >>)
    /\ EndIteration
    /\ UNCHANGED << curr_page, cmd_queue, results_queue, issued, received >>
    /\ LoopUnchanged

\* '6'..'9': the default case of the switch
MainPollHelp(ch) ==
    /\ c_pc = "poll"
    /\ IsCmdChar(ToChar(ch))
    /\ ToChar(ch) - 48 \notin CMD_READ_ID..CMD_GET_FLASH_INFO
    /\ c' = ToChar(ch)
    /\ out' = Says("HELP_STR", << >>)
    /\ EndIteration
    /\ UNCHANGED << curr_page, cmd_queue, results_queue, issued, received >>
    /\ LoopUnchanged

\* An enqueue that does not wait for the Result
MainAdd_NoWait ==
    /\ c_pc = "add"
    /\ Len(cmd_queue) < QueueCap
    /\ cmd_queue' = Append(cmd_queue, [c_cmd_arg EXCEPT !.seq = issued + 1])
    /\ issued' = issued + 1
    /\ EndIteration
    /\ UNCHANGED << c, curr_page, out, results_queue, received >>
    /\ LoopUnchanged

\* queue_add_blocking(&cmd_queue, &cmd_arg): blocks while the queue is full
MainAdd ==
    /\ c_pc = "add"
    /\ Len(cmd_queue) < QueueCap
    /\ cmd_queue' = Append(cmd_queue, [c_cmd_arg EXCEPT !.seq = issued + 1])
    /\ c_cmd_arg' = [c_cmd_arg EXCEPT !.seq = issued + 1]
    /\ issued' = issued + 1
    /\ c_pc' = "remove"
    /\ UNCHANGED << c, res, p1, p2, p3, curr_page, out, results_queue, received >>
    /\ LoopUnchanged

\* A dequeue that leaves the Result in the queue
MainRemove_Peek ==
    /\ c_pc = "remove"
    /\ Len(results_queue) > 0
    /\ res' = Head(results_queue)
    /\ results_queue' = results_queue
    /\ received' = received + 1
    /\ c_pc' = "check"
    /\ UNCHANGED << c, c_cmd_arg, p1, p2, p3, curr_page, out, cmd_queue, issued >>
    /\ LoopUnchanged

\* queue_remove_blocking(&results_queue, &res): blocks while the queue is empty
MainRemove ==
    /\ c_pc = "remove"
    /\ Len(results_queue) > 0
    /\ res' = Head(results_queue)
    /\ results_queue' = Tail(results_queue)
    /\ received' = received + 1
    /\ c_pc' = "check"
    /\ UNCHANGED << c, c_cmd_arg, p1, p2, p3, curr_page, out, cmd_queue, issued >>
    /\ LoopUnchanged

\* The test of res.sz that follows the dequeue, per command
MainCheck ==
    /\ c_pc = "check"
    /\ CASE c_cmd_arg.cmd = CMD_READ_ID ->
              IF res.sz <= 0 \/ res.sz > IdSize
              THEN out' = Says("Error return:", << res.sz >>) /\ EndIteration
              ELSE /\ c_pc' = "print_id"
                   /\ UNCHANGED << c_cmd_arg, res, p1, p2, p3, out >>
         [] c_cmd_arg.cmd = CMD_READ_PAGE ->
              IF \/ res.sz <= 0
                 \/ res.sz > flash_info_glob.page_size_bytes + flash_info_glob.oob_size_bytes
              THEN out' = Says("Error reading page:", << res.sz >>) /\ EndIteration
              ELSE /\ c_pc' = "display_page"
                   /\ UNCHANGED << c_cmd_arg, res, p1, p2, p3, out >>
         [] c_cmd_arg.cmd = CMD_RESET_PAGE_NO ->
              /\ out' = IF res.sz # 1 THEN Says("Error resetting page", << res.sz >>) ELSE out
              /\ EndIteration
         [] OTHER ->
              /\ out' = IF res.sz # 1 THEN Says("Error setting page", << res.sz >>) ELSE out
              /\ EndIteration
    /\ UNCHANGED << c, curr_page, cmd_queue, results_queue, issued, received >>
    /\ LoopUnchanged

\* The bytes of shared_buffer below n, at the offsets the model keeps
BufferBelow(n) == [o \in { q \in Probes : q < n } |-> shared_buffer[o]]

\* printf("ID: "); for (i < res.sz) printf("%02x ", shared_buffer[i]);
MainPrintId ==
    /\ c_pc = "print_id"
    /\ out' = Says("ID:", << BufferBelow(res.sz) >>)
    /\ c_pc' = "explain_id"
    /\ UNCHANGED << c, c_cmd_arg, res, p1, p2, p3, curr_page, cmd_queue,
                    results_queue, issued, received >>
    /\ LoopUnchanged

\* explain_id((id_data_t*)shared_buffer)
MainExplainId ==
    /\ c_pc = "explain_id"
    /\ out' = Says("Maker:", << shared_buffer[0] >>)
    /\ EndIteration
    /\ UNCHANGED << c, curr_page, cmd_queue, results_queue, issued, received >>
    /\ LoopUnchanged

\* display_page(shared_buffer, res.sz); curr_page += 1;
MainDisplayPage ==
    /\ c_pc = "display_page"
    /\ out' = Says("page", << BufferBelow(res.sz) >>)
    /\ curr_page' = U32(curr_page + 1)
    /\ EndIteration
    /\ UNCHANGED << c, cmd_queue, results_queue, issued, received >>
    /\ LoopUnchanged

-----------------------------------------------------------------------------
(* core1_main: the worker *)

\* (int) of a uint32_t
ToInt32(x) == IF x > 2147483647 THEN ((x - 2147483647) - 2147483647) - 2 ELSE x

WorkerUnchanged ==
    UNCHANGED << ctl_vars, flash_info_glob, chip_id, ry_stuck, bus_vars, issued, received >>

\* queue_remove_blocking(&cmd_queue, &cmd_arg): blocks while the queue is empty
Core1Remove ==
    /\ w_pc = "remove"
    /\ Len(cmd_queue) > 0
    /\ w_cmd_arg' = Head(cmd_queue)
    /\ cmd_queue' = Tail(cmd_queue)
    /\ h_page0' = page_num
    /\ w_pc' = "switch"
    /\ UNCHANGED << result, page_num, rb_i, rb_n, results_queue, shared_buffer, nand, h_run >>
    /\ WorkerUnchanged

\* The reset case publishing whatever size the previous Command left
Core1Switch_StaleSize ==
    /\ w_pc = "switch"
    /\ CASE w_cmd_arg.cmd = CMD_READ_ID ->
              /\ result' = [result EXCEPT !.sz = IdSize]
              /\ w_pc' = "read_id"
              /\ UNCHANGED << page_num, h_run >>
         [] w_cmd_arg.cmd = CMD_READ_PAGE ->
              /\ result' = [result EXCEPT !.sz = flash_info_glob.page_size_bytes
                                                 + flash_info_glob.oob_size_bytes]
              /\ w_pc' = "memset"
              /\ UNCHANGED << page_num, h_run >>
         [] w_cmd_arg.cmd = CMD_RESET_PAGE_NO ->
              /\ result' = [result EXCEPT !.alloc = 0]
              /\ page_num' = 0
              /\ h_run' = 0
              /\ w_pc' = "add"
         [] w_cmd_arg.cmd = CMD_SET_PAGE_NO ->
              /\ result' = [result EXCEPT !.sz = 1, !.alloc = 0]
              /\ page_num' = ToInt32(w_cmd_arg.arg)
              /\ h_run' = IF w_cmd_arg.arg = 0 THEN 0 ELSE 0 - 1
              /\ w_pc' = "add"
         [] OTHER ->
              /\ w_pc' = "add"
              /\ UNCHANGED << result, page_num, h_run >>
    /\ UNCHANGED << w_cmd_arg, rb_i, rb_n, cmd_queue, results_queue, shared_buffer,
                    nand, h_page0 >>
    /\ WorkerUnchanged

\* switch (cmd_arg.cmd): the assignments each case starts with
Core1Switch ==
    /\ w_pc = "switch"
    /\ CASE w_cmd_arg.cmd = CMD_READ_ID ->
              /\ result' = [result EXCEPT !.sz = IdSize]
              /\ w_pc' = "read_id"
              /\ UNCHANGED << page_num, h_run >>
         [] w_cmd_arg.cmd = CMD_READ_PAGE ->
              /\ result' = [result EXCEPT !.sz = flash_info_glob.page_size_bytes
                                                 + flash_info_glob.oob_size_bytes]
              /\ w_pc' = "memset"
              /\ UNCHANGED << page_num, h_run >>
         [] w_cmd_arg.cmd = CMD_RESET_PAGE_NO ->
              /\ result' = [result EXCEPT !.sz = 1, !.alloc = 0]
              /\ page_num' = 0
              /\ h_run' = 0
              /\ w_pc' = "add"
         [] w_cmd_arg.cmd = CMD_SET_PAGE_NO ->
              /\ result' = [result EXCEPT !.sz = 1, !.alloc = 0]
              /\ page_num' = ToInt32(w_cmd_arg.arg)
              /\ h_run' = IF w_cmd_arg.arg = 0 THEN 0 ELSE 0 - 1
              /\ w_pc' = "add"
         [] OTHER ->
              /\ w_pc' = "add"
              /\ UNCHANGED << result, page_num, h_run >>
    /\ UNCHANGED << w_cmd_arg, rb_i, rb_n, cmd_queue, results_queue, shared_buffer,
                    nand, h_page0 >>
    /\ WorkerUnchanged

\* read_id(&pins_glob, shared_buffer) up to the ready/busy poll of read_bytes
Core1ReadId ==
    /\ w_pc = "read_id"
    /\ nand' = read_id_setup(nand)
    /\ rb_i' = 0
    /\ rb_n' = IdSize
    /\ w_pc' = "read_bytes_poll"
    /\ UNCHANGED << w_cmd_arg, result, page_num, cmd_queue, results_queue,
                    shared_buffer, h_page0, h_run >>
    /\ WorkerUnchanged

\* The buffer left as the previous Command filled it
Core1Memset_Skip ==
    /\ w_pc = "memset"
    /\ shared_buffer' = shared_buffer
    /\ w_pc' = "read_page"
    /\ UNCHANGED << w_cmd_arg, result, page_num, rb_i, rb_n, cmd_queue,
                    results_queue, nand, h_page0, h_run >>
    /\ WorkerUnchanged

\* memset(shared_buffer, 0, sizeof(shared_buffer))
Core1Memset ==
    /\ w_pc = "memset"
    /\ shared_buffer' = [o \in Probes |-> 0]
    /\ w_pc' = "read_page"
    /\ UNCHANGED << w_cmd_arg, result, page_num, rb_i, rb_n, cmd_queue,
                    results_queue, nand, h_page0, h_run >>
    /\ WorkerUnchanged

\* read_page(&pins_glob, page_num, shared_buffer, result.sz) up to the poll
Core1ReadPage ==
    /\ w_pc = "read_page"
    /\ nand' = read_page_setup(nand, U32(page_num))
    /\ rb_i' = 0
    /\ rb_n' = U32(result.sz)
    /\ w_pc' = "read_bytes_poll"
    /\ UNCHANGED << w_cmd_arg, result, page_num, cmd_queue, results_queue,
                    shared_buffer, h_page0, h_run >>
    /\ WorkerUnchanged

\* The wait given up after one turn, as a bounded wait would
Core1ReadBytesBusy_GiveUp ==
    /\ w_pc = "read_bytes_poll"
    /\ nand.ry = FALSE
    /\ w_pc' = "read_bytes_loop"
    /\ UNCHANGED << w_cmd_arg, result, page_num, rb_i, rb_n, cmd_queue,
                    results_queue, shared_buffer, nand, h_page0, h_run >>
    /\ WorkerUnchanged

\* while (!gpio_get(pins->ry)): one more turn of the wait
Core1ReadBytesBusy ==
    /\ w_pc = "read_bytes_poll"
    /\ nand.ry = FALSE
    /\ UNCHANGED vars

\* The ready/busy line reads high: the poll ends
Core1ReadBytesReady ==
    /\ w_pc = "read_bytes_poll"
    /\ nand.ry = TRUE
    /\ w_pc' = "read_bytes_loop"
    /\ UNCHANGED << w_cmd_arg, result, page_num, rb_i, rb_n, cmd_queue,
                    results_queue, shared_buffer, nand, h_page0, h_run >>
    /\ WorkerUnchanged

\* Where core1_main goes on when read_bytes returns
AfterReadBytes == IF w_cmd_arg.cmd = CMD_READ_PAGE THEN "inc_page" ELSE "add"

\* The loop index never advanced
Core1ReadBytesLoop_NoAdvance ==
    /\ w_pc = "read_bytes_loop"
    /\ IF rb_i < rb_n
       THEN /\ shared_buffer' = IF rb_i \in Probes
                                THEN [shared_buffer EXCEPT ![rb_i] = U8(ChipOut(nand, chip_id, rb_i))]
                                ELSE shared_buffer
            /\ rb_i' = rb_i
            /\ w_pc' = w_pc
       ELSE /\ w_pc' = AfterReadBytes
            /\ UNCHANGED << shared_buffer, rb_i >>
    /\ UNCHANGED << w_cmd_arg, result, page_num, rb_n, cmd_queue, results_queue,
                    nand, h_page0, h_run >>
    /\ WorkerUnchanged

\* for (i < num_bytes) *(dst + i) = get_io_val(pins); from one kept offset to the next
Core1ReadBytesLoop ==
    /\ w_pc = "read_bytes_loop"
    /\ IF rb_i < rb_n
       THEN /\ shared_buffer' = IF rb_i \in Probes
                                THEN [shared_buffer EXCEPT ![rb_i] = U8(ChipOut(nand, chip_id, rb_i))]
                                ELSE shared_buffer
            /\ rb_i' = NextIndex(rb_i, rb_n)
            /\ w_pc' = w_pc
       ELSE /\ w_pc' = AfterReadBytes
            /\ UNCHANGED << shared_buffer, rb_i >>
    /\ UNCHANGED << w_cmd_arg, result, page_num, rb_n, cmd_queue, results_queue,
                    nand, h_page0, h_run >>
    /\ WorkerUnchanged

\* The counter advanced by the bytes read instead of by one page
Core1IncPage_Bytes ==
    /\ w_pc = "inc_page"
    /\ page_num' = page_num + result.sz
    /\ h_run' = IF h_run >= 0 THEN h_run + 1 ELSE h_run
    /\ w_pc' = "add"
    /\ UNCHANGED << w_cmd_arg, result, rb_i, rb_n, cmd_queue, results_queue,
                    shared_buffer, nand, h_page0 >>
    /\ WorkerUnchanged

\* page_num += 1; (int: the overflow at 2^31 - 1 lies beyond what MaxCmds reaches)
Core1IncPage ==
    /\ w_pc = "inc_page"
    /\ page_num' = page_num + 1
    /\ h_run' = IF h_run >= 0 THEN h_run + 1 ELSE h_run
    /\ w_pc' = "add"
    /\ UNCHANGED << w_cmd_arg, result, rb_i, rb_n, cmd_queue, results_queue,
                    shared_buffer, nand, h_page0 >>
    /\ WorkerUnchanged

\* A Result published twice
Core1Add_Twice ==
    /\ w_pc = "add"
    /\ Len(results_queue) + 1 < QueueCap
    /\ results_queue' = Append(Append(results_queue, [result EXCEPT !.seq = w_cmd_arg.seq]),
                               [result EXCEPT !.seq = w_cmd_arg.seq])
    /\ w_pc' = "remove"
    /\ UNCHANGED << w_cmd_arg, result, page_num, rb_i, rb_n, cmd_queue,
                    shared_buffer, nand, h_page0, h_run >>
    /\ WorkerUnchanged

\* queue_add_blocking(&results_queue, &result): blocks while the queue is full
Core1Add ==
    /\ w_pc = "add"
    /\ Len(results_queue) < QueueCap
    /\ results_queue' = Append(results_queue, [result EXCEPT !.seq = w_cmd_arg.seq])
    /\ w_pc' = "remove"
    /\ UNCHANGED << w_cmd_arg, result, page_num, rb_i, rb_n, cmd_queue,
                    shared_buffer, nand, h_page0, h_run >>
    /\ WorkerUnchanged

-----------------------------------------------------------------------------
(* The program *)

Next ==
    \/ MainResetNand
    \/ MainReadId
    \/ MainReadIdBytes
    \/ MainCheckIoWidth
    \/ MainGetFlashInfo
    \/ MainHalt
    \/ MainLaunch
    \/ \E ch \in InChars : MainPollNoCmd(ch)
    \/ \E ch \in InChars : MainPollCmd(ch)
    \/ \E ch \in InChars : MainPollSetPageNo(ch)
    \/ \E b \in P1Inputs : MainGetP1(b)
    \/ \E b \in P2Inputs : MainGetP2(b)
    \/ \E b \in P3Inputs : MainGetP3(b)
    \/ MainPageNo
    \/ \E ch \in InChars : MainPollDriveStrength(ch)
    \/ \E ch \in InChars : MainPollFlashInfo(ch)
    \/ \E ch \in InChars : MainPollHelp(ch)
    \/ MainAdd
    \/ MainRemove
    \/ MainCheck
    \/ MainPrintId
    \/ MainExplainId
    \/ MainDisplayPage
    \/ Core1Remove
    \/ Core1Switch
    \/ Core1ReadId
    \/ Core1Memset
    \/ Core1ReadPage
    \/ Core1ReadBytesBusy
    \/ Core1ReadBytesReady
    \/ Core1ReadBytesLoop
    \/ Core1IncPage
    \/ Core1Add
    \/ ChipReady

Spec == Init /\ [][Next]_vars

-----------------------------------------------------------------------------
(* The program with both cores running and a chip that becomes ready *)

\* core1_main never stops executing
Core1Runs ==
    \/ Core1Remove
    \/ Core1Switch
    \/ Core1ReadId
    \/ Core1Memset
    \/ Core1ReadPage
    \/ Core1ReadBytesReady
    \/ Core1ReadBytesLoop
    \/ Core1IncPage
    \/ Core1Add

\* main never stops executing once it has built a Command
MainRuns ==
    \/ MainAdd
    \/ MainRemove
    \/ MainCheck
    \/ MainPrintId
    \/ MainExplainId
    \/ MainDisplayPage

SpecLive ==
    /\ Init
    /\ [][Next]_vars
    /\ WF_vars(Core1Runs)
    /\ WF_vars(MainRuns)
    /\ WF_vars(ChipReady)

-----------------------------------------------------------------------------
(* The program on a chip whose ready/busy line may fail *)

\* The ready/busy line drops low and never reads high again
ChipFails ==
    /\ ~ry_stuck
    /\ ry_stuck' = TRUE
    /\ nand' = [nand EXCEPT !.ry = FALSE]
    /\ UNCHANGED << ctl_vars, wrk_vars, hist_vars, flash_info_glob, cmd_queue,
                    results_queue, shared_buffer, chip_id, bus_vars >>

NextStuck ==
    \/ Next
    \/ ChipFails

SpecStuck == Init /\ [][NextStuck]_vars

-----------------------------------------------------------------------------
(* The worker alone, fed any Command tag one at a time: the state right    *)
(* after multicore_launch_core1, with the control side reduced to one      *)
(* enqueue followed by one dequeue                                         *)

SupportedIds == { id \in ChipIds : /\ check_supported_io_width(IdRecord(id))
                                   /\ get_flash_info(IdRecord(id), ZeroFlashInfo).ret }

\* Arguments tried with every tag
WorkerArgs == {0, 5, 131071}

InitWorker ==
    /\ c_pc = "feed"
    /\ c = 255
    /\ c_cmd_arg = NoCmd
    /\ res = NoRes
    /\ p1 = 0 /\ p2 = 0 /\ p3 = 0
    /\ chip_id \in SupportedIds
    /\ ry_stuck = FALSE
    /\ BusAtRest
    /\ id_data = IdRecord(chip_id)
    /\ curr_page = 0
    /\ out = NoOut
    /\ flash_info_glob = get_flash_info(IdRecord(chip_id), ZeroFlashInfo).flash_info
    /\ cmd_queue = << >>
    /\ results_queue = << >>
    /\ shared_buffer = [o \in Probes |-> 0]
    /\ w_pc = "remove"
    /\ w_cmd_arg = [cmd |-> 0, arg |-> 5, seq |-> 0]
    /\ result = NoRes
    /\ page_num = 0
    /\ rb_i = 0
    /\ rb_n = 0
    /\ nand = [cmd |-> 144, addr |-> << 0 >>, ry |-> TRUE]
    /\ issued = 0
    /\ received = 0
    /\ h_page0 = 0
    /\ h_run = 0

\* queue_add_blocking(&cmd_queue, &cmd_arg) with any tag and argument
FeedCommand(tag, arg) ==
    /\ c_pc = "feed"
    /\ issued < MaxCmds
    /\ Len(cmd_queue) < QueueCap
    /\ c_cmd_arg' = [cmd |-> tag, arg |-> arg, seq |-> issued + 1]
    /\ cmd_queue' = Append(cmd_queue, c_cmd_arg')
    /\ issued' = issued + 1
    /\ c_pc' = "take"
    /\ UNCHANGED << c, res, p1, p2, p3, id_data, curr_page, out, flash_info_glob,
                    results_queue, shared_buffer, wrk_vars, nand, chip_id, ry_stuck, bus_vars,
                    received, h_page0, h_run >>

\* queue_remove_blocking(&results_queue, &res)
TakeResult ==
    /\ c_pc = "take"
    /\ Len(results_queue) > 0
    /\ res' = Head(results_queue)
    /\ results_queue' = Tail(results_queue)
    /\ received' = received + 1
    /\ c_pc' = "feed"
    /\ UNCHANGED << c, c_cmd_arg, p1, p2, p3, id_data, curr_page, out,
                    flash_info_glob, cmd_queue, shared_buffer, wrk_vars, nand,
                    chip_id, ry_stuck, bus_vars, issued, h_page0, h_run >>

NextWorker ==
    \/ \E tag \in CMD_READ_ID..CMD_NONE, arg \in WorkerArgs : FeedCommand(tag, arg)
    \/ TakeResult
    \/ Core1Remove
    \/ Core1Switch
    \/ Core1ReadId
    \/ Core1Memset
    \/ Core1ReadPage
    \/ Core1ReadBytesBusy
    \/ Core1ReadBytesReady
    \/ Core1ReadBytesLoop
    \/ Core1IncPage
    \/ Core1Add
    \/ ChipReady

SpecWorker == InitWorker /\ [][NextWorker]_vars

-----------------------------------------------------------------------------
(* get_flash_info alone, on any maker code and any page-size byte, with    *)
(* the record it is handed holding zeros or the values of an earlier call  *)

GeoMakers == {0, 44, 151, 152, 153, 255}

GeoPriorInfo ==
    {ZeroFlashInfo,
     [page_size_bytes |-> 512, oob_size_bytes |-> 16, flash_size_bytes |-> 69206016]}

InitGeo ==
    /\ c_pc = "get_flash_info"
    /\ c = 255
    /\ c_cmd_arg = NoCmd
    /\ res = NoRes
    /\ p1 = 0 /\ p2 = 0 /\ p3 = 0
    /\ \E mk \in GeoMakers, b3 \in 0..255 :
          /\ chip_id = << mk, 220, 144, b3, 118 >>
          /\ id_data = IdRecord(chip_id)
    /\ curr_page = 0
    /\ out = NoOut
    /\ flash_info_glob \in GeoPriorInfo
    /\ cmd_queue = << >>
    /\ results_queue = << >>
    /\ shared_buffer = [o \in Probes |-> 0]
    /\ w_pc = "off"
    /\ w_cmd_arg = [cmd |-> 0, arg |-> 5, seq |-> 0]
    /\ result = NoRes
    /\ page_num = 0
    /\ rb_i = 0
    /\ rb_n = 0
    /\ nand = [cmd |-> 144, addr |-> << 0 >>, ry |-> TRUE]
    /\ ry_stuck = FALSE
    /\ BusAtRest
    /\ issued = 0
    /\ received = 0
    /\ h_page0 = 0
    /\ h_run = 0

NextGeo ==
    \/ MainGetFlashInfo
    \/ MainHalt

SpecGeo == InitGeo /\ [][NextGeo]_vars

-----------------------------------------------------------------------------
(* The bus primitives statement by statement, against a chip that latches on
   the rising edge of WE and shifts a byte out on every falling edge of RE *)

\* Calls of primitives in one run
MaxBusOps == 2

\* Largest num_bytes read_bytes and read_page are called with
MaxRead == 3

\* Statements: gpio_put, set_io_dir, set_io_val, busy_wait_at_least_cycles,
\* sleep_us, the ready/busy poll, and *(dst + i) = get_io_val(pins)
Put(pin, v) == [op |-> "put", pin |-> pin, v |-> v]
SetIoDir(to_output) == [op |-> "io_dir", pin |-> "io_dir", v |-> to_output]
SetIoVal(io_val) == [op |-> "io_val", pin |-> "io_val", v |-> io_val]
BusyWait(cycles) == [op |-> "wait", pin |-> "", v |-> cycles]
SleepUs(us) == [op |-> "sleep_us", pin |-> "", v |-> us]
PollRy == [op |-> "ry", pin |-> "", v |-> 1]
Sample(i) == [op |-> "sample", pin |-> "", v |-> i]

\* The chip select raised only after the write pulse has begun
write_cmd_ops_LateEnable(cmd) ==
    << Put("re", 1), Put("we", 1), Put("ale", 0), SetIoDir(1), SetIoVal(cmd),
       Put("cle", 1), BusyWait(5),
       Put("we", 0), Put("ce", 0), BusyWait(3), Put("we", 1), BusyWait(3),
       Put("cle", 0) >>

write_cmd_ops(cmd) ==
    << Put("re", 1), Put("we", 1), Put("ale", 0), SetIoDir(1), SetIoVal(cmd),
       Put("cle", 1), Put("ce", 0), BusyWait(5),
       Put("we", 0), BusyWait(3), Put("we", 1), BusyWait(3),
       Put("cle", 0) >>

reset_nand_ops == write_cmd_ops(255) \o << Put("ce", 1), SleepUs(600) >>

write_addr_1_ops(addr) ==
    << Put("ce", 0), Put("re", 1), Put("we", 1), Put("cle", 0), SetIoDir(1),
       Put("ale", 1), BusyWait(4),
       SetIoVal(addr), BusyWait(3), Put("we", 0), BusyWait(3), Put("we", 1),
       BusyWait(3), Put("ale", 0) >>

\* One turn of the for loop of write_addr_5
AddrCycle(b) ==
    << SetIoVal(b), BusyWait(40), Put("we", 0), BusyWait(40), Put("we", 1),
       BusyWait(40) >>

write_addr_5_ops(page_addr, col_addr) ==
    LET ab == addr_bytes(page_addr, col_addr)
    IN  << Put("ce", 0), Put("re", 1), Put("we", 1), Put("cle", 0), SetIoDir(1),
           Put("ale", 1), BusyWait(50) >>
        \o AddrCycle(ab[1]) \o AddrCycle(ab[2]) \o AddrCycle(ab[3])
        \o AddrCycle(ab[4]) \o AddrCycle(ab[5])
        \o << BusyWait(30), Put("ale", 0) >>

\* The byte taken after RE has gone back high
ReadCycle_Late(i) ==
    << Put("re", 0), BusyWait(10), BusyWait(6), Put("re", 1), Sample(i),
       BusyWait(6) >>

\* One turn of the for loop of read_bytes
ReadCycle(i) ==
    << Put("re", 0), BusyWait(10), Sample(i), BusyWait(6), Put("re", 1),
       BusyWait(6) >>

RECURSIVE ReadCycles(_, _)
ReadCycles(i, num_bytes) ==
    IF i < num_bytes THEN ReadCycle(i) \o ReadCycles(i + 1, num_bytes) ELSE << >>

\* The IO lines left as the last write set them
read_bytes_ops_NoTurn(num_bytes) ==
    << Put("ce", 0), Put("cle", 0), Put("ale", 0), Put("we", 1),
       Put("re", 1), BusyWait(40), PollRy, BusyWait(10) >>
    \o ReadCycles(0, num_bytes)

read_bytes_ops(num_bytes) ==
    << SetIoDir(0), Put("ce", 0), Put("cle", 0), Put("ale", 0), Put("we", 1),
       Put("re", 1), BusyWait(40), PollRy, BusyWait(10) >>
    \o ReadCycles(0, num_bytes)

read_id_ops == write_cmd_ops(144) \o write_addr_1_ops(0) \o read_bytes_ops(IdSize)

\* The read started without the reset
read_page_ops_NoReset(page_num_, page_size) ==
    write_cmd_ops(0) \o write_addr_5_ops(page_num_, 0)
    \o write_cmd_ops(48) \o << SleepUs(1) >> \o read_bytes_ops(page_size)

read_page_ops(page_num_, page_size) ==
    reset_nand_ops \o write_cmd_ops(0) \o write_addr_5_ops(page_num_, 0)
    \o write_cmd_ops(48) \o << SleepUs(1) >> \o read_bytes_ops(page_size)

\* The statements of a call
Prog(op) ==
    CASE op.kind = "write_cmd" -> write_cmd_ops(op.a)
      [] op.kind = "write_addr_5" -> write_addr_5_ops(op.a, op.b)
      [] op.kind = "read_bytes" -> read_bytes_ops(op.a)
      [] op.kind = "reset_nand" -> reset_nand_ops
      [] op.kind = "read_id" -> read_id_ops
      [] op.kind = "read_page" -> read_page_ops(op.a, op.b)
      [] OTHER -> << >>

\* num_bytes of the read_bytes a call ends with
DstLen(op) ==
    CASE op.kind = "read_bytes" -> op.a
      [] op.kind = "read_id" -> IdSize
      [] op.kind = "read_page" -> op.b
      [] OTHER -> 0

\* A byte of dst nothing has been stored to
Unwritten == 0 - 1

\* Arguments the calls are tried with
BusCmds == {0, 48, 85, 144, 255}
BusPages == {0, 70196, 131071, 131072, 201268}
BusCols == {0, 8191, 8705}

BusOps ==
    { [kind |-> "write_cmd", a |-> cmd, b |-> 0] : cmd \in BusCmds }
    \cup { [kind |-> "write_addr_5", a |-> pg, b |-> col] : pg \in BusPages, col \in BusCols }
    \cup { [kind |-> "read_bytes", a |-> n, b |-> 0] : n \in 0..MaxRead }
    \cup { [kind |-> "reset_nand", a |-> 0, b |-> 0],
           [kind |-> "read_id", a |-> 0, b |-> 0] }
    \cup { [kind |-> "read_page", a |-> pg, b |-> n] : pg \in BusPages, n \in 1..MaxRead }

\* The pins after a statement
Drive(p, ins) ==
    CASE ins.op = "put" -> [p EXCEPT ![ins.pin] = ins.v]
      [] ins.op = "io_dir" -> [p EXCEPT !.io_dir = ins.v]
      [] ins.op = "io_val" -> [p EXCEPT !.io_val = ins.v]
      [] OTHER -> p

\* What the chip latches when the pins go from old to new: on a rising edge of
\* WE with the chip selected, a command if CLE alone is high, an address byte
\* if ALE alone is high
Latched(old, new) ==
    IF old.we = 0 /\ new.we = 1 /\ new.ce = 0 /\ new.io_dir = 1
    THEN IF new.cle = 1 /\ new.ale = 0 THEN "cmd"
         ELSE IF new.ale = 1 /\ new.cle = 0 THEN "addr"
         ELSE ""
    ELSE ""

\* The chip after the pins went from old to new; commands 0x00 and 0x90 open
\* a new address
ChipSees(old, new, n) ==
    CASE Latched(old, new) = "cmd" ->
            [write_cmd(n, new.io_val) EXCEPT !.addr = IF new.io_val \in {0, 144}
                                                      THEN << >> ELSE @]
      [] Latched(old, new) = "addr" -> [n EXCEPT !.addr = Append(@, new.io_val)]
      [] OTHER -> n

\* The chip's column pointer: back to 0 on a latch, one further on every
\* falling edge of RE with the chip selected
ChipColumn(old, new, col) ==
    IF Latched(old, new) # "" THEN 0
    ELSE IF old.re = 1 /\ new.re = 0 /\ new.ce = 0 THEN col + 1
    ELSE col

\* gpio_get_all() & 0xFF: what the program drives itself, else what the chip
\* drives while RE is low, else the idle level of the lines
get_io_val(p, n, id, col) ==
    IF p.io_dir = 1 THEN p.io_val
    ELSE IF p.ce = 0 /\ p.re = 0 /\ col > 0 /\ (n.cmd = 48 => Len(n.addr) = 5)
         THEN ChipOut(n, id, col - 1)
    ELSE 255

\* What is noted of a statement: a level that changed, a sleep, the poll
\* passed, a byte taken
Noted(ins, old, new) ==
    \/ ins.op \in {"sleep_us", "ry", "sample"}
    \/ old # new

\* io: the level of the IO lines after the statement
BusEvent(ins, old, new, io) ==
    [ev |-> IF ins.op = "put" THEN ins.pin ELSE ins.op, v |-> ins.v,
     latch |-> Latched(old, new), pins |-> new, io |-> io]

BusUnchanged ==
    UNCHANGED << ctl_vars, wrk_vars, hist_vars, flash_info_glob, cmd_queue,
                 results_queue, shared_buffer, chip_id, ry_stuck >>

\* A primitive is called
BusCall(op) ==
    /\ b_todo = << >>
    /\ b_done < MaxBusOps
    /\ b_op' = op
    /\ b_todo' = Prog(op)
    /\ b_dst' = [k \in 1..DstLen(op) |-> Unwritten]
    /\ bus_log' = << >>
    /\ b_done' = b_done + 1
    /\ UNCHANGED << pins, nand, chip_col >>
    /\ BusUnchanged

\* The next statement of the primitive
BusStep ==
    /\ b_todo # << >>
    /\ LET ins == Head(b_todo)
           new == Drive(pins, ins)
       IN  /\ ins.op = "ry" => nand.ry
           /\ pins' = new
           /\ nand' = ChipSees(pins, new, nand)
           /\ chip_col' = ChipColumn(pins, new, chip_col)
           /\ b_dst' = IF ins.op = "sample"
                       THEN [b_dst EXCEPT ![ins.v + 1] = get_io_val(pins, nand, chip_id, chip_col)]
                       ELSE b_dst
           /\ bus_log' = IF Noted(ins, pins, new)
                         THEN Append(bus_log,
                                     BusEvent(ins, pins, new,
                                              get_io_val(new, ChipSees(pins, new, nand), chip_id,
                                                         ChipColumn(pins, new, chip_col))))
                         ELSE bus_log
    /\ b_todo' = Tail(b_todo)
    /\ UNCHANGED << b_op, b_done >>
    /\ BusUnchanged

\* while (!gpio_get(pins->ry)): one more turn of the wait
BusPollBusy ==
    /\ b_todo # << >>
    /\ Head(b_todo).op = "ry"
    /\ nand.ry = FALSE
    /\ UNCHANGED vars

InitBus ==
    /\ Init
    /\ chip_id \in SupportedIds

NextBus ==
    \/ \E op \in BusOps : BusCall(op)
    \/ BusStep
    \/ BusPollBusy
    \/ ChipReady

SpecBus == InitBus /\ [][NextBus]_vars

-----------------------------------------------------------------------------
(* Properties *)

\* The worker holds a Command: dequeued, its Result not yet published
Executing == w_pc \notin {"off", "remove"}

InFlight ==
    Len(cmd_queue) + (IF Executing THEN 1 ELSE 0) + Len(results_queue)

\* main is reading shared_buffer
Reading == c_pc \in {"print_id", "explain_id", "display_page"}

\* C1: at most one request is outstanding: Commands queued, plus the Command the
\* worker is executing, plus Results queued never exceed 1; so neither queue
\* holds more than one element, and an enqueue never finds its queue full.
C1_SingleOutstanding ==
    /\ InFlight <= 1
    /\ Len(cmd_queue) <= 1
    /\ Len(results_queue) <= 1
    /\ c_pc = "add" => Len(cmd_queue) < QueueCap
    /\ w_pc = "add" => Len(results_queue) < QueueCap

C1_Witness ==
    /\ w_pc = "read_bytes_loop"
    /\ c_pc = "remove"
    /\ InFlight = 1
    /\ issued = MaxCmds

\* C2: Results come back in command-issue order: the i-th Result main dequeues
\* is the one the worker published for the i-th Command main enqueued; the
\* Results waiting in the queue are those of the next Commands, in order, none
\* twice and none skipped.
C2_ResultOrder ==
    /\ \A i \in 1..Len(results_queue) : results_queue[i].seq = received + i
    /\ \A i \in 1..Len(cmd_queue) :
          cmd_queue[i].seq = issued - Len(cmd_queue) + i
    /\ c_pc \in {"check", "print_id", "explain_id", "display_page"} =>
          /\ res.seq = received
          /\ res.seq = c_cmd_arg.seq
          /\ c_cmd_arg.seq = issued

C2_Witness ==
    /\ c_pc = "check"
    /\ received = 2
    /\ res.seq = 2
    /\ c_cmd_arg.cmd = CMD_READ_PAGE

\* C3: main reads shared_buffer only after it dequeued the Result of the
\* Command it issued and while the worker is blocked waiting for a Command;
\* every change of shared_buffer is made by the worker while it executes a
\* Command and while main is not reading.
C3_BufferRaceFree ==
    /\ [](Reading => /\ w_pc = "remove"
                     /\ cmd_queue = << >>
                     /\ received = issued
                     /\ res.seq = c_cmd_arg.seq)
    /\ [][shared_buffer' # shared_buffer =>
            /\ w_pc \in {"memset", "read_bytes_loop"}
            /\ ~Reading
            /\ ~Reading']_vars

C3_Witness ==
    /\ c_pc = "display_page"
    /\ shared_buffer[4351] # 0
    /\ received = 2

\* C4: the page counter after each dispatch: ReadPage adds one (so N ReadPage
\* dispatches after the counter was 0 leave it at N), SetPageCounter(k) leaves
\* k, ResetPageCounter leaves 0, ReadId and any other tag leave it as it was.
C4_PageCounterValues ==
    /\ h_run >= 0 => page_num = h_run
    /\ w_pc = "add" =>
          CASE w_cmd_arg.cmd = CMD_READ_PAGE -> page_num = h_page0 + 1
            [] w_cmd_arg.cmd = CMD_SET_PAGE_NO -> page_num = w_cmd_arg.arg
            [] w_cmd_arg.cmd = CMD_RESET_PAGE_NO -> page_num = 0
            [] OTHER -> page_num = h_page0
    /\ w_pc \in {"read_id", "read_bytes_poll", "read_bytes_loop"}
          /\ w_cmd_arg.cmd = CMD_READ_ID => page_num = h_page0

\* Two ReadPage dispatches from 0 done, then an unrecognized tag dispatched
C4_Witness ==
    /\ w_pc = "add"
    /\ w_cmd_arg.cmd = CMD_NONE
    /\ h_run = 2
    /\ page_num = 2

\* C5: the page counter stays within 0..2^17.
C5_PageCounterInRange == page_num \in 0..131072

\* C6: the page number dispatched for '3' is b0 + 256*b1 + 65536*(b2 mod 2) of
\* the three bytes received, below 2^17; (0x34, 0x12, 0x00) gives 0x1234 and
\* (0x34, 0x12, 0x01) gives 0x11234.
C6_Ingested(b0, b1, b2) == b0 + 256 * b1 + 65536 * (b2 % 2)

C6_NoneMissing == p1 >= 0 /\ p2 >= 0 /\ p3 >= 0

C6_PageNumberIngestion ==
    [][(c_pc = "page_no" /\ C6_NoneMissing) =>
          /\ c_pc' = "add"
          /\ c_cmd_arg'.cmd = CMD_SET_PAGE_NO
          /\ c_cmd_arg'.arg = C6_Ingested(p1, p2, p3)
          /\ c_cmd_arg'.arg < 131072
          /\ (<< p1, p2, p3 >> = << 52, 18, 0 >> => c_cmd_arg'.arg = 4660)
          /\ (<< p1, p2, p3 >> = << 52, 18, 1 >> => c_cmd_arg'.arg = 70196)
          /\ (<< p1, p2, p3 >> = << 52, 18, 254 >> => c_cmd_arg'.arg = 4660)]_vars

\* The worker took 0x11234 as its page counter
C6_Witness ==
    /\ w_pc = "add"
    /\ w_cmd_arg.cmd = CMD_SET_PAGE_NO
    /\ w_cmd_arg.arg = 70196
    /\ page_num = 70196

\* C7: when the wait for one of the three bytes of '3' timed out, no Command
\* is enqueued; the page counter, both queues and shared_buffer stay as they
\* were, and main is back at the poll of the next command byte.
C7_Ingesting == c_pc \in {"getchar_p1", "getchar_p2", "getchar_p3", "page_no"}

C7_AnyMissing == p1 < 0 \/ p2 < 0 \/ p3 < 0

C7_TimeoutRecovery ==
    [][C7_Ingesting =>
          /\ UNCHANGED << cmd_queue, results_queue, page_num, shared_buffer,
                          issued, w_pc >>
          /\ ((c_pc = "page_no" /\ C7_AnyMissing) =>
                 /\ c_pc' = "poll"
                 /\ out'.msg = "Timed out reading page number")]_vars

C7_Witness ==
    /\ c_pc = "poll"
    /\ out.msg = "Timed out reading page number"
    /\ page_num = 2
    /\ issued = 2

\* C8: get_flash_info for maker 0x98 gives page 2048, spare 128 when bits 0-1
\* of ID byte 3 are 1, and page 4096, spare 256 when they are 2, with
\* total = 64*2048*(page+spare); for any other maker or field value it returns
\* false and leaves the record as it was.
C8_Field == id_data.pgsz_bksz_iow % 4

C8_Geometry(pg, oob) ==
    [page_size_bytes |-> pg, oob_size_bytes |-> oob,
     flash_size_bytes |-> 64 * 2048 * (pg + oob)]

C8_DecodeGeometry ==
    [][c_pc = "get_flash_info" =>
          IF id_data.maker = 152 /\ C8_Field = 1
          THEN c_pc' = "launch" /\ flash_info_glob' = C8_Geometry(2048, 128)
          ELSE IF id_data.maker = 152 /\ C8_Field = 2
          THEN c_pc' = "launch" /\ flash_info_glob' = C8_Geometry(4096, 256)
          ELSE c_pc' = "halt_id" /\ flash_info_glob' = flash_info_glob]_vars

\* A record that held an earlier geometry, left alone by a failed decode
C8_Witness ==
    /\ c_pc = "halt_id"
    /\ id_data.maker = 152
    /\ C8_Field = 3
    /\ flash_info_glob.page_size_bytes = 512

\* C9: a chip answering (0x98, 0xDC, 0x90, 0x26, 0x76) gives the geometry
\* page 4096, spare 256, total 64*2048*4352 = 570425344; no chip's geometry
\* changes once the worker is launched, and '5' prints it whatever came before.
C9_Chip == << 152, 220, 144, 38, 118 >>

C9_Geometry ==
    [page_size_bytes |-> 4096, oob_size_bytes |-> 256, flash_size_bytes |-> 570425344]

C10_Unsupported ==
    \/ (chip_id[4] \div 64) % 2 = 1
    \/ chip_id[1] # 152
    \/ chip_id[4] % 4 \notin {1, 2}

C10_Halted == c_pc \in {"halt_io", "halt_id"}

C10_FatalAtStartup ==
    /\ [](C10_Unsupported =>
             /\ c_pc \in {"reset_nand", "read_id", "read_id_bytes", "check_io",
                          "get_flash_info", "halt_io", "halt_id"}
             /\ (c_pc = "get_flash_info" => (chip_id[4] \div 64) % 2 = 0)
             /\ w_pc = "off"
             /\ issued = 0
             /\ cmd_queue = << >>
             /\ nand.cmd \in {NoChipCmd, 255, 144})
    /\ [][C10_Halted => UNCHANGED << c_pc, w_pc, nand, cmd_queue, issued >>]_vars

C10_Witness ==
    /\ c_pc = "halt_io"
    /\ chip_id[1] = 152
    /\ chip_id[4] = 102

-----------------------------------------------------------------------------
\* C11: on every polling iteration of main whose host byte is anything other
\* than '0'..'5', or on which no byte is available, main prints the help text
\* and enqueues no Command.
C11_Iteration ==
    /\ c_pc = "poll"
    /\ c_pc' = "poll"
    /\ nand' = nand
    /\ c' \notin 48..53

C11_HelpOnOtherInput ==
    [][C11_Iteration => (out' = Says("HELP_STR", << >>) /\ issued' = issued)]_vars

-----------------------------------------------------------------------------
\* C12: whenever no request is in flight, main's curr_page equals the worker's
\* page_num, for every sequence of '1', '2' and '3' commands.
C12_NothingInFlight ==
    /\ c_pc = "poll"
    /\ w_pc = "remove"
    /\ cmd_queue = << >>
    /\ results_queue = << >>

C12_PageCounterMirror == C12_NothingInFlight => curr_page = page_num

-----------------------------------------------------------------------------
\* C13: once a ReadId or ReadPage has reached the ready/busy wait of read_bytes
\* and the line never reads high again, the worker stays in that wait, no
\* Result is published, and main stays blocked in its dequeue: no later step
\* of either core (no timeout, no host byte) changes that.
C13_Waiting ==
    /\ w_pc = "read_bytes_poll"
    /\ ry_stuck
    /\ nand.ry = FALSE

C13_Blocked ==
    /\ c_pc = "remove"
    /\ results_queue = << >>
    /\ received = issued - 1

C13_NoRecovery ==
    /\ [](C13_Waiting => C13_Blocked)
    /\ [][C13_Waiting => (C13_Waiting' /\ UNCHANGED << ctl_vars, wrk_vars, cmd_queue,
                                                       results_queue, issued, received >>)]_vars

C13_Witness ==
    /\ C13_Waiting
    /\ w_cmd_arg.cmd = CMD_READ_ID
    /\ issued = 2
    /\ c = 48

-----------------------------------------------------------------------------
\* C14: a page read is idempotent: whatever Commands came before, once the
\* worker has read page n (page_num put to n, then ReadPage) the chip holds
\* the address bytes of n and shared_buffer holds the bytes of page n below
\* the payload size and zero above it, so two reads of the same page leave
\* byte-identical payloads.
C14_Address(n) == << 0, 0, n % 256, (n \div 256) % 256, (n \div 65536) % 2 >>

C14_Payload(n, sz) ==
    [o \in Probes |-> IF o < sz THEN PageData(C14_Address(n), o) ELSE 0]

C14_PageRead ==
    /\ w_cmd_arg.cmd = CMD_READ_PAGE
    /\ w_pc \in {"inc_page", "add", "remove"}
    /\ w_cmd_arg.seq > 0

C14_IdempotentRead ==
    C14_PageRead =>
        /\ nand.cmd = 48
        /\ nand.addr = C14_Address(h_page0)
        /\ shared_buffer = C14_Payload(h_page0, flash_info_glob.page_size_bytes
                                                  + flash_info_glob.oob_size_bytes)

C14_Witness ==
    /\ C14_PageRead
    /\ w_pc = "add"
    /\ issued = 3
    /\ h_page0 = 70196
    /\ shared_buffer[4351] # 0

-----------------------------------------------------------------------------
\* C15: the worker's ReadPage case: the whole buffer is cleared before the
\* read starts; the page read is the one page_num named when the Command was
\* dequeued; page_num is incremented only after the read, with result.sz =
\* page size + spare size by then; after a reset of the counter the k-th
\* ReadPage addresses page k - 1; and the Result is published only once every
\* byte below result.sz has been stored.
C15_Size == flash_info_glob.page_size_bytes + flash_info_glob.oob_size_bytes

C15_Row(n) == << n % 256, (n \div 256) % 256, (n \div 65536) % 2 >>

C15_Latched == << nand.addr[3], nand.addr[4], nand.addr[5] >>

-----------------------------------------------------------------------------
(* Properties of the bus, read off bus_log *)

IsPrefix(s, t) == Len(s) <= Len(t) /\ SubSeq(t, 1, Len(s)) = s

BusReturned == b_todo = << >>

IsWe(e) == e.ev = "we"

IsRe(e) == e.ev = "re"

\* The edges of WE among the first j events
WeEdges(j) == SelectSeq(SubSeq(bus_log, 1, j), IsWe)

-----------------------------------------------------------------------------
\* C16: read_page puts on the bus, in this order and nothing else in between:
\* the reset (command 0xFF, CE raised, the reset wait), command 0x00, the five
\* address bytes of (page, column 0), command 0x30, the settle delay, and then
\* the bytes of read_bytes; so no byte is taken before 0x30 is latched and no
\* page read begins without its own reset.
C16_Relevant(e) ==
    \/ e.latch # ""
    \/ e.ev \in {"sleep_us", "sample"}
    \/ (e.ev = "ce" /\ e.v = 1)

C16_Trace ==
    LET sel == SelectSeq(bus_log, C16_Relevant)
    IN  [i \in 1..Len(sel) |-> IF sel[i].latch # ""
                               THEN << sel[i].latch, sel[i].pins.io_val >>
                               ELSE << sel[i].ev, sel[i].v >>]

C16_Addr(page) == << 0, 0, page % 256, (page \div 256) % 256, (page \div 65536) % 2 >>

C16_Expected(page, size) ==
    << << "cmd", 255 >>, << "ce", 1 >>, << "sleep_us", 600 >>, << "cmd", 0 >> >>
    \o [i \in 1..5 |-> << "addr", C16_Addr(page)[i] >>]
    \o << << "cmd", 48 >>, << "sleep_us", 1 >> >>
    \o [i \in 1..size |-> << "sample", i - 1 >>]

C16_ReadPageProtocol ==
    b_op.kind = "read_page" =>
        /\ IsPrefix(C16_Trace, C16_Expected(b_op.a, b_op.b))
        /\ BusReturned =>
              /\ C16_Trace = C16_Expected(b_op.a, b_op.b)
              /\ nand.cmd = 48
              /\ nand.addr = C16_Addr(b_op.a)

C16_Witness ==
    /\ b_op = [kind |-> "read_page", a |-> 201268, b |-> 2]
    /\ BusReturned
    /\ b_done = 2
    /\ Len(C16_Trace) = 13

-----------------------------------------------------------------------------
\* C17: write_addr_5 drives exactly five address bytes, col & 0xFF,
\* (col >> 8) & 0x1F, page & 0xFF, (page >> 8) & 0xFF, (page >> 16) & 0x01 in
\* this order, each latched by one low pulse of WE with ALE high and CLE low;
\* ALE goes low only after the fifth pulse; page numbers that differ by a
\* multiple of 2^17 give the same five bytes.
C17_Bytes(page, col) ==
    << col % 256, (col \div 256) % 32, (page % 131072) % 256,
       ((page % 131072) \div 256) % 256, (page % 131072) \div 65536 >>

C17_AddressCycles ==
    b_op.kind = "write_addr_5" =>
        LET we == WeEdges(Len(bus_log))
            by == C17_Bytes(b_op.a, b_op.b)
        IN  /\ Len(we) <= 10
            /\ \A k \in 1..Len(we) :
                  /\ we[k].v = (k + 1) % 2
                  /\ we[k].latch = IF k % 2 = 0 THEN "addr" ELSE ""
                  /\ we[k].pins.ale = 1
                  /\ we[k].pins.cle = 0
                  /\ we[k].pins.ce = 0
                  /\ we[k].pins.io_dir = 1
                  /\ we[k].pins.io_val = by[(k + 1) \div 2]
            /\ \A j \in 1..Len(bus_log) :
                  (bus_log[j].ev = "ale" /\ bus_log[j].v = 0) => Len(WeEdges(j)) = 10
            /\ BusReturned =>
                  /\ Len(we) = 10
                  /\ pins.ale = 0
                  /\ SubSeq(nand.addr, Len(nand.addr) - 4, Len(nand.addr)) = by

C17_Witness ==
    /\ b_op = [kind |-> "write_addr_5", a |-> 201268, b |-> 8705]
    /\ BusReturned
    /\ nand.addr = << 1, 2, 52, 18, 1 >>

-----------------------------------------------------------------------------
\* C18: write_cmd makes exactly one low pulse of WE, during which CLE is high,
\* ALE low, CE low, RE high and the IO lines are outputs carrying the command
\* byte; the chip is selected before WE falls and CLE goes low only after WE
\* is high again.
C18_CommandCycle ==
    b_op.kind = "write_cmd" =>
        LET we == WeEdges(Len(bus_log))
        IN  /\ Len(we) <= 2
            /\ \A k \in 1..Len(we) :
                  /\ we[k].v = k - 1
                  /\ we[k].latch = IF k = 2 THEN "cmd" ELSE ""
                  /\ we[k].pins.cle = 1
                  /\ we[k].pins.ale = 0
                  /\ we[k].pins.ce = 0
                  /\ we[k].pins.re = 1
                  /\ we[k].pins.io_dir = 1
                  /\ we[k].pins.io_val = b_op.a
            /\ \A j \in 1..Len(bus_log) :
                  (bus_log[j].ev = "cle" /\ bus_log[j].v = 0) => Len(WeEdges(j)) = 2
            /\ BusReturned =>
                  /\ Len(we) = 2
                  /\ pins.cle = 0
                  /\ pins.we = 1
                  /\ nand.cmd = b_op.a

C18_Witness ==
    /\ b_op = [kind |-> "write_cmd", a |-> 85, b |-> 0]
    /\ BusReturned
    /\ b_done = 2
    /\ nand.cmd = 85

-----------------------------------------------------------------------------
\* C19: read_bytes turns the IO lines to input, takes no byte before it has
\* seen ready/busy high, makes exactly num_bytes low pulses of RE, takes one
\* byte in each low phase with RE high again before the next, stores the i-th
\* byte at offset i of dst, and returns with RE high.
C19_Relevant(e) == e.ev \in {"ry", "re", "sample"}

C19_Trace ==
    LET sel == SelectSeq(bus_log, C19_Relevant)
    IN  [i \in 1..Len(sel) |-> << sel[i].ev, sel[i].v >>]

\* After the poll, turn i is events 3i + 2 .. 3i + 4: RE low, byte i, RE high
C19_Expected(num_bytes) ==
    [k \in 1..(3 * num_bytes + 1) |->
        IF k = 1 THEN << "ry", 1 >>
        ELSE IF k % 3 = 2 THEN << "re", 0 >>
        ELSE IF k % 3 = 0 THEN << "sample", (k \div 3) - 1 >>
        ELSE << "re", 1 >>]

C19_Taken == SelectSeq(bus_log, LAMBDA e : e.ev = "sample")

C19_ReadCycles ==
    b_op.kind = "read_bytes" =>
        /\ IsPrefix(C19_Trace, C19_Expected(b_op.a))
        /\ \A j \in 1..Len(bus_log) :
              C19_Relevant(bus_log[j]) =>
                  /\ bus_log[j].pins.io_dir = 0
                  /\ bus_log[j].pins.ce = 0
                  /\ bus_log[j].pins.we = 1
                  /\ bus_log[j].pins.cle = 0
                  /\ bus_log[j].pins.ale = 0
        /\ Len(b_dst) = b_op.a
        /\ \A i \in 1..Len(b_dst) :
              b_dst[i] = IF i <= Len(C19_Taken) THEN C19_Taken[i].io ELSE Unwritten
        /\ BusReturned =>
              /\ C19_Trace = C19_Expected(b_op.a)
              /\ Len(SelectSeq(bus_log, IsRe)) = 2 * b_op.a
              /\ pins.re = 1

C19_Witness ==
    /\ b_op = [kind |-> "read_bytes", a |-> 3, b |-> 0]
    /\ BusReturned
    /\ nand.cmd = 144
    /\ b_dst = << chip_id[1], chip_id[2], chip_id[3] >>

-----------------------------------------------------------------------------
\* C20: with both cores running and ready/busy going high in every
\* read_bytes, every Command main has enqueued leads to its one Result being
\* dequeued by main, with the worker back in queue_remove_blocking, both
\* queues empty, and main back in its polling loop.
C20_Enqueued == c_pc = "remove"

C20_Served ==
    /\ c_pc = "poll"
    /\ w_pc = "remove"
    /\ received = issued
    /\ cmd_queue = << >>
    /\ results_queue = << >>

C20_CommandCompletes == C20_Enqueued ~> C20_Served

C20_Witness ==
    /\ C20_Served
    /\ issued = MaxCmds
    /\ c = 49
    /\ out.msg = "page"

-----------------------------------------------------------------------------
\* C21: the pins are always in a legal state: CLE and ALE are never both high,
\* WE and RE are never both low, WE or RE is low only while CE is low, WE is
\* low only while the IO lines are outputs, and RE is low only while the IO
\* lines are inputs.
C21_Legal(p) ==
    /\ ~(p.cle = 1 /\ p.ale = 1)
    /\ ~(p.we = 0 /\ p.re = 0)
    /\ (p.we = 0 \/ p.re = 0) => p.ce = 0
    /\ p.we = 0 => p.io_dir = 1
    /\ p.re = 0 => p.io_dir = 0

C21_BusLegality ==
    /\ C21_Legal(pins)
    /\ \A j \in 1..Len(bus_log) : C21_Legal(bus_log[j].pins)

C21_Witness ==
    /\ b_op.kind = "read_page"
    /\ b_done = 2
    /\ pins.re = 0
    /\ pins.io_dir = 0
    /\ Len(SelectSeq(bus_log, IsWe)) = 16

-----------------------------------------------------------------------------
\* C22: the bus has one owner at a time: main is in a bus primitive only
\* during startup, while the worker is not yet launched; once launched, the
\* worker alone is ever in a bus primitive, and main is then blocked in
\* queue_remove_blocking; every command or address the chip latches comes
\* from the one core that owns the bus at that moment, the other standing
\* still.
C22_MainOnBus == c_pc \in {"reset_nand", "read_id", "read_id_bytes"}

C22_WorkerOnBus == w_pc \in {"read_id", "read_page", "read_bytes_poll", "read_bytes_loop"}

C22_Latching == nand'.cmd # nand.cmd \/ nand'.addr # nand.addr

C22_SingleBusOwner ==
    /\ [](C22_MainOnBus => w_pc = "off")
    /\ [](C22_WorkerOnBus => c_pc = "remove")
    /\ [][w_pc # "off" => (w_pc' # "off" /\ ~C22_MainOnBus')]_vars
    /\ [][C22_Latching =>
             IF w_pc = "off"
             THEN C22_MainOnBus /\ UNCHANGED wrk_vars
             ELSE C22_WorkerOnBus /\ UNCHANGED ctl_vars]_vars

C22_Witness ==
    /\ w_pc = "read_bytes_loop"
    /\ rb_i > 0
    /\ nand.cmd = 48
    /\ c_pc = "remove"
    /\ issued = 2

-----------------------------------------------------------------------------
\* C23: every Result main dequeues passes the size test main applies to it:
\* 5 for ReadId, page size + spare size (above 0 and no more than the 16384
\* bytes of shared_buffer) for ReadPage, 1 for the reset and the set of the
\* page counter; so main never prints one of its result-size errors.
C23_Errors ==
    {"Error return:", "Error reading page:", "Error resetting page", "Error setting page"}

C23_Dequeued == c_pc = "check"

C23_SizeOf(tag) ==
    CASE tag = CMD_READ_ID -> 5
      [] tag = CMD_READ_PAGE -> flash_info_glob.page_size_bytes
                                + flash_info_glob.oob_size_bytes
      [] OTHER -> 1

C23_ResultSizeBounds ==
    /\ out.msg \notin C23_Errors
    /\ C23_Dequeued =>
          /\ c_cmd_arg.cmd \in {CMD_READ_ID, CMD_READ_PAGE, CMD_RESET_PAGE_NO,
                                 CMD_SET_PAGE_NO}
          /\ res.sz = C23_SizeOf(c_cmd_arg.cmd)
          /\ res.sz > 0
          /\ res.sz <= 16384

C23_Witness ==
    /\ C23_Dequeued
    /\ c_cmd_arg.cmd = CMD_READ_PAGE
    /\ res.sz = 4352
    /\ received = 3

====
